---- MODULE Spec2Model ----
(***************************************************************************)
(* The changeset / change-log engine of c3nav's editor                     *)
(* (src/src/c3nav/editor/models.py): the stored ChangeSet and Change       *)
(* records, the in-memory ChangeSet handles with their projections         *)
(* (updated_values, deleted_existing), ChangeSet.get_for_request,          *)
(* ChangeSet._new_change with the add_* operations, and Change.save with   *)
(* Change.clean.                                                            *)
(***************************************************************************)
EXTENDS Integers, Sequences, FiniteSets, TLC

\* ------------------------------------------------------------------ bounds
MaxChanges == 3
MaxRawChanges == 1
MaxChangeSets == 2
MaxTime == 2

\* ------------------------------------------------------------ value domains
\* None of an integer-valued attribute (a pk, a timestamp); pks and times start at 1.
Null == 0
\* None of a string-valued attribute (model_name, field_name).
NoStr == "<None>"
\* None of a user-valued attribute (author IS NULL, author=None).
NoUser == "<nobody>"
\* request.user of a request without login: is_authenticated() is False.
Anonymous == "<anonymous>"
AuthUsers == {"alice", "bob"}
Sessions == {"s1", "s2"}
Handles == {"h1"}
\* Concrete mapdata models, and one abstract model class.
Models == {"Area", "POI"}
AbstractModels == {"SpaceGeometryMixin"}
Fields == {"name", "title"}
ObjectPks == {42}

is_authenticated(u) == u \in AuthUsers

\* ------------------------------------------------------- python values, json
\* A Python value handed to add_update: a str (its characters), an int or None.
PyStr(s) == [t |-> "str", s |-> s, n |-> 0]
PyInt(n) == [t |-> "int", s |-> <<>>, n |-> n]
PyNone == [t |-> "none", s |-> <<>>, n |-> 0]
\* Stands for "json.loads raised": the text is not a JSON document.
PyError == [t |-> "error", s |-> <<>>, n |-> 0]

Digits == <<"0", "1", "2", "3", "4", "5", "6", "7", "8", "9">>

RECURSIVE IntToChars(_)
IntToChars(n) ==
    IF n < 10 THEN <<Digits[n + 1]>>
    ELSE IntToChars(n \div 10) \o <<Digits[(n % 10) + 1]>>

RECURSIVE EscapeChars(_)
EscapeChars(s) ==
    IF s = <<>> THEN <<>>
    ELSE (IF Head(s) \in {"\"", "\\"} THEN <<"\\", Head(s)>> ELSE <<Head(s)>>)
         \o EscapeChars(Tail(s))

\* json.dumps(value, ensure_ascii=False): the JSON text, as its characters.
JsonDumps(v) ==
    CASE v.t = "str" -> <<"\"">> \o EscapeChars(v.s) \o <<"\"">>
      [] v.t = "int" -> IntToChars(v.n)
      [] OTHER -> <<"n", "u", "l", "l">>

DigitValue(c) == CHOOSE d \in 0..9 : Digits[d + 1] = c
IsDigit(c) == \E d \in 0..9 : Digits[d + 1] = c

RECURSIVE CharsToInt(_)
CharsToInt(s) ==
    IF Len(s) = 1 THEN DigitValue(s[1])
    ELSE 10 * CharsToInt(SubSeq(s, 1, Len(s) - 1)) + DigitValue(s[Len(s)])

\* The body of a JSON string (after the opening quote) up to the closing quote.
RECURSIVE UnescapeChars(_)
UnescapeChars(s) ==
    IF s = <<>> \/ Head(s) = "\"" THEN <<>>
    ELSE IF Head(s) = "\\" /\ Len(s) > 1 THEN <<s[2]>> \o UnescapeChars(Tail(Tail(s)))
    ELSE <<Head(s)>> \o UnescapeChars(Tail(s))

\* json.loads(text) for the texts JsonDumps writes.
JsonLoads(s) ==
    IF s = <<>> THEN PyError
    ELSE IF s = <<"n", "u", "l", "l">> THEN PyNone
    ELSE IF Head(s) = "\"" THEN PyStr(UnescapeChars(Tail(s)))
    ELSE IF \A i \in 1..Len(s) : IsDigit(s[i]) THEN PyInt(CharsToInt(s))
    ELSE PyError

\* field_value IS NULL: the attribute was never set.
NoValue == <<>>

\* ------------------------------------------------------------ object identity
\* The pk of a wrapped object: the int of a persisted object, the str 'c<n>' of a
\* pending creation, or None for an instance that was never saved.
IntPk(n) == [kind |-> "int", n |-> n]
StrPk(n) == [kind |-> "str", n |-> n]
NonePk == [kind |-> "none", n |-> 0]

\* A ModelInstanceWrapper: its pk, the model of its _obj, the id of its _changeset.
Wrapper(pk, m, cs) == [pk |-> pk, model |-> m, cs |-> cs]
NoWrapper == [pk |-> NonePk, model |-> NoStr, cs |-> Null]


\* -------------------------------------------------------------------- state
VARIABLES
    changesets,   \* the ChangeSet table: row i is the ChangeSet with pk i
    changes,      \* the Change table: row i is the Change with pk i
    session,      \* request.session['changeset_pk'] of every session
    handles,      \* the in-memory ChangeSet objects held by running requests
    now,          \* the clock behind auto_now_add and the proposed/applied timestamps
    last          \* the last call: its operation, its handle, what it raised or returned

vars == <<changesets, changes, session, handles, now, last>>

\* A ChangeSet row (the fields of the model, applied_by left out).
ChangeSetRow(created, author) ==
    [created |-> created, author |-> author, proposed |-> Null, applied |-> Null]

\* Change(changeset=self): every other attribute at its default, _set_object None.
ChangeObject(cs) ==
    [pk |-> Null, changeset |-> cs, author |-> NoUser, created |-> Null,
     action |-> NoStr, deletes_change |-> Null, model_name |-> NoStr,
     existing_object_pk |-> Null, created_object |-> Null,
     field_name |-> NoStr, field_value |-> NoValue, set_object |-> NoWrapper]
NoChange == ChangeObject(Null)

\* A Change read back from the table: a new instance, so _set_object is None.
LoadChange(id) == [changes[id] EXCEPT !.set_object = NoWrapper]

ChangePks == 1..Len(changes)
ChangeSetPks == 1..Len(changesets)
\* changeset.changes: the pks of the Changes of ChangeSet cs now in the table.
ChangesOf(cs) == {id \in ChangePks : changes[id].changeset = cs}

\* ChangeSet.__init__ on top of the loaded fields; no handle in the slot when cs is Null.
\* prefetched: the queryset ran prefetch_related('changes'); snapshot is that cache.
Handle(cs, row, default_author, prefetched, snapshot) ==
    [cs |-> cs, author |-> row.author, proposed |-> row.proposed, applied |-> row.applied,
     default_author |-> default_author, parsed |-> FALSE,
     prefetched |-> prefetched, snapshot |-> snapshot,
     updated_values |-> <<>>, deleted_existing |-> <<>>]
NoHandle == Handle(Null, ChangeSetRow(Null, NoUser), NoUser, FALSE, {})

\* What a call left behind: status "ok" or the exception raised, the Change it
\* built (as it stood when the call ended) and the pk the call assigned to obj.
Outcome(op, h, status, change, pk) ==
    [op |-> op, h |-> h, status |-> status, change |-> change, pk |-> pk]

\* What get_for_request left behind: the ChangeSet object it returned is in slot h,
\* the request came with session s.
Resolution(op, h, s) ==
    [op |-> op, h |-> h, status |-> "ok", change |-> NoChange, pk |-> NonePk, s |-> s]

\* The exceptions a call can end with.
Ok == "ok"
ValidationError == "ValidationError"
StateError == "TypeError: can not add change object to uneditable changeset."
EditError == "TypeError: change objects can not be edited."
DeleteError == "TypeError: change objects can not be deleted directly."
JsonTypeError == "TypeError: the JSON object must be str, not 'NoneType'"
ValueError == "ValueError"
DoesNotExist == "DoesNotExist"
NotImplementedError == "NotImplementedError"
IntegrityError == "IntegrityError"

Init ==
    /\ changesets = <<>>
    /\ changes = <<>>
    /\ session = [s \in Sessions |-> Null]
    /\ handles = [h \in Handles |-> NoHandle]
    /\ now = 1
    /\ last = Outcome("init", "h1", "ok", NoChange, NonePk)

\* ------------------------------------------------------------ the projection
\* Change.Meta.ordering = ['created', 'pk'].
Before(a, b) ==
    \/ changes[a].created < changes[b].created
    \/ changes[a].created = changes[b].created /\ a < b

RECURSIVE LogOrder(_)
LogOrder(ids) ==
    IF ids = {} THEN <<>>
    ELSE LET first == CHOOSE a \in ids : \A b \in ids \ {a} : Before(a, b)
         IN  <<first>> \o LogOrder(ids \ {first})

\* Raised by obj_pk when no target is set.
ErrPk == [kind |-> "TypeError", n |-> 0]

obj_pk(change) ==
    IF change.set_object # NoWrapper THEN change.set_object.pk
    ELSE IF change.existing_object_pk # Null THEN IntPk(change.existing_object_pk)
    ELSE IF change.created_object # Null
         THEN StrPk(changes[change.created_object].changeset)
    ELSE ErrPk

\* d.get(k, default) and d[k] = v on a dict
Get(d, k, default) == IF k \in DOMAIN d THEN d[k] ELSE default
Put(d, k, v) == (k :> v) @@ d

\* updated_values.setdefault(model, {}).setdefault(pk, {}).update({field: value})
\* The setdefault calls have run when json.loads raises, so their entries stay.
UpdateValue(uv, model, pk, field, text) ==
    LET byModel == Get(uv, model, <<>>)
        byObj == Get(byModel, pk, <<>>)
        value == JsonLoads(text)
    IN  IF pk = ErrPk THEN [uv |-> Put(uv, model, byModel), err |-> TRUE]
        ELSE IF value = PyError
             THEN [uv |-> Put(uv, model, Put(byModel, pk, byObj)), err |-> TRUE]
        ELSE [uv |-> Put(uv, model, Put(byModel, pk, Put(byObj, field, value))),
              err |-> FALSE]

\* deleted_existing.setdefault(model, set()).add(existing_object_pk)
AddDeleted(de, model, pk) == Put(de, model, Get(de, model, {}) \cup {pk})

\* _parse_change without the test that the deleted object is a persisted one.
ParseChange_AnyDelete(p, change) ==
    IF change.action = "update"
    THEN LET r == UpdateValue(p.uv, change.model_name, obj_pk(change),
                              change.field_name, change.field_value)
         IN  [uv |-> r.uv, de |-> p.de, err |-> r.err]
    ELSE IF change.action = "delete"
    THEN [uv |-> p.uv, err |-> FALSE,
          de |-> AddDeleted(p.de, change.model_name, change.existing_object_pk)]
    ELSE [uv |-> p.uv, de |-> p.de, err |-> FALSE]

\* ChangeSet._parse_change on a projection p = [uv, de, err].
ParseChange(p, change) ==
    IF change.action = "update"
    THEN LET r == UpdateValue(p.uv, change.model_name, obj_pk(change),
                              change.field_name, change.field_value)
         IN  [uv |-> r.uv, de |-> p.de, err |-> r.err]
    ELSE IF change.action = "delete" /\ change.existing_object_pk # Null
    THEN [uv |-> p.uv, err |-> FALSE,
          de |-> AddDeleted(p.de, change.model_name, change.existing_object_pk)]
    ELSE [uv |-> p.uv, de |-> p.de, err |-> FALSE]

\* The loop of parse_changes over a list of Change pks; it ends where _parse_change raises.
RECURSIVE FoldChanges(_, _)
FoldChanges(p, ids) ==
    IF ids = <<>> \/ p.err THEN p
    ELSE FoldChanges(ParseChange(p, LoadChange(Head(ids))), Tail(ids))

\* self.changes.all(): the prefetch cache when there is one, else a query.
ChangesAll(hd) == LogOrder(IF hd.prefetched THEN hd.snapshot ELSE ChangesOf(hd.cs))

Projection(hd) == [uv |-> hd.updated_values, de |-> hd.deleted_existing, err |-> FALSE]

\* ChangeSet.parse_changes: nothing ever sets parsed, so the loop runs on every call.
ParseChanges(hd) ==
    IF hd.parsed THEN Projection(hd)
    ELSE FoldChanges(Projection(hd), ChangesAll(hd))

WithProjection(hd, p) == [hd EXCEPT !.updated_values = p.uv, !.deleted_existing = p.de]


\* --------------------------------------------------------- get_for_request
\* ChangeSet.qs_base(hide_applied=True): the rows whose applied IS NULL.
qs_base == {cs \in ChangeSetPks : changesets[cs].applied = Null}

\* qs_for_request without the filter on the author.
qs_for_request_AnyAuthor(user) == qs_base

\* ChangeSet.qs_for_request
qs_for_request(user) ==
    IF is_authenticated(user)
    THEN {cs \in qs_base : changesets[cs].author \in {NoUser, user}}
    ELSE {cs \in qs_base : changesets[cs].author = NoUser}

\* A ChangeSet object out of the queryset, its changes prefetched.
LoadHandle(cs, user) == Handle(cs, changesets[cs], user, TRUE, ChangesOf(cs))

\* The author's ChangeSets without the order by creation time: any of them is first.
LatestOf_Unordered(user) ==
    {cs \in qs_for_request(user) : changesets[cs].author = user}

\* qs.filter(Q(author=user)).order_by('-created').first(): a row with the latest
\* created; the database picks one of several with the same timestamp.
LatestOf(user) ==
    LET mine == {cs \in qs_for_request(user) : changesets[cs].author = user}
    IN  {cs \in mine : \A o \in mine : changesets[o].created <= changesets[cs].created}

\* The session slot left as it was.
SetSession_Keep(s, pk) == session

\* request.session['changeset_pk'] = pk
SetSession(s, pk) == [session EXCEPT ![s] = pk]

\* ChangeSet.get_for_request for a request of `user` on session `s`; the ChangeSet
\* object it returns is held in slot h.
GetForRequest(h, user, s) ==
    LET qs == qs_for_request(user)
        changeset_pk == session[s]
    IN  IF changeset_pk # Null /\ changeset_pk \in qs
        THEN LET adopt == changesets[changeset_pk].author = NoUser /\ is_authenticated(user)
                 row == IF adopt THEN [changesets[changeset_pk] EXCEPT !.author = user]
                        ELSE changesets[changeset_pk]
             IN  /\ changesets' = [changesets EXCEPT ![changeset_pk] = row]
                 /\ handles' = [handles EXCEPT ![h] =
                        [LoadHandle(changeset_pk, user) EXCEPT !.author = row.author]]
                 /\ last' = Resolution("get_for_request:session", h, s)
                 /\ UNCHANGED <<changes, session, now>>
        ELSE IF is_authenticated(user) /\ LatestOf(user) # {}
        THEN \E cs \in LatestOf(user) :
                 /\ session' = SetSession(s, cs)
                 /\ handles' = [handles EXCEPT ![h] = LoadHandle(cs, user)]
                 /\ last' = Resolution("get_for_request:author", h, s)
                 /\ UNCHANGED <<changesets, changes, now>>
        ELSE LET row == ChangeSetRow(now, IF is_authenticated(user) THEN user ELSE NoUser)
                 pk == Len(changesets) + 1
             IN  /\ Len(changesets) < MaxChangeSets
                 /\ changesets' = Append(changesets, row)
                 /\ session' = SetSession(s, pk)
                 /\ handles' = [handles EXCEPT ![h] = Handle(pk, row, user, FALSE, {})]
                 /\ last' = Resolution("get_for_request:new", h, s)
                 /\ UNCHANGED <<changes, now>>

\* A ChangeSet object taken out of qs_base() by its pk: __init__ leaves its
\* default_author None.
Load(h, cs) ==
    /\ cs \in qs_base
    /\ handles' = [handles EXCEPT ![h] = LoadHandle(cs, NoUser)]
    /\ last' = Outcome("load", h, Ok, NoChange, NonePk)
    /\ UNCHANGED <<changesets, changes, session, now>>

\* ChangeSet.wrap: parse_changes, then a wrapper around obj.
Wrap(h) ==
    LET hd == handles[h]
        p == ParseChanges(hd)
    IN  /\ hd.cs # Null
        /\ handles' = [handles EXCEPT ![h] = WithProjection(hd, p)]
        /\ last' = Outcome("wrap", h, IF p.err THEN JsonTypeError ELSE Ok, NoChange, NonePk)
        /\ UNCHANGED <<changesets, changes, session, now>>


\* ------------------------------------------------------------------- Change
\* A setter's result: the Change after it and the exception it raised (Ok: none).
Set(change, err) == [c |-> change, err |-> err]

\* Change.model_class (setter); value is the name of a model class or NoStr for None.
SetModelClass(change, value) ==
    IF value = NoStr THEN Set([change EXCEPT !.model_name = NoStr], Ok)
    ELSE IF value \in AbstractModels THEN Set(change, ValueError)
    ELSE Set([change EXCEPT !.model_name = value], Ok)

\* Change.obj (setter) for a ModelInstanceWrapper.
SetObj(change, value) ==
    IF value.pk.kind = "str"
    THEN IF value.cs # change.changeset THEN Set(change, ValueError)
         ELSE LET m == SetModelClass(change, value.model)
              IN  IF m.err # Ok THEN m
                  ELSE IF value.pk.n \notin ChangePks THEN Set(m.c, DoesNotExist)
                  ELSE Set([m.c EXCEPT !.created_object = value.pk.n,
                                       !.existing_object_pk = Null,
                                       !.set_object = value], Ok)
    ELSE LET m == SetModelClass(change, value.model)
         IN  IF m.err # Ok THEN m
             ELSE IF value.pk = NonePk THEN Set(change, ValueError)
             ELSE Set([m.c EXCEPT !.existing_object_pk = value.pk.n,
                                  !.created_object = Null,
                                  !.set_object = value], Ok)

\* Change.obj (getter): Ok when it returns a wrapper, else the exception it raises.
GetObj(change) ==
    IF change.set_object # NoWrapper THEN Ok
    ELSE IF change.existing_object_pk # Null
    THEN IF change.created_object # Null THEN "TypeError"
         ELSE IF change.existing_object_pk \notin ObjectPks THEN DoesNotExist
         ELSE Ok
    ELSE IF change.created_object # Null
    THEN IF changes[change.created_object].model_name # change.model_name THEN "TypeError"
         ELSE IF changes[change.created_object].changeset # change.changeset THEN "TypeError"
         ELSE NotImplementedError
    ELSE "TypeError"

\* clean without the delchange rules on the voided Change's ChangeSet and on the payload.
clean_NoDelchangeRules(change) ==
    IF change.action = "delchange"
    THEN IF change.deletes_change = Null THEN ValidationError ELSE Ok
    ELSE IF change.deletes_change # Null THEN ValidationError
    ELSE IF change.model_name = NoStr THEN ValidationError
    ELSE LET tmp == IF change.action = "create" THEN Ok ELSE GetObj(change)
         IN  IF tmp \in {"TypeError", DoesNotExist} THEN ValidationError
             ELSE IF tmp # Ok THEN tmp
             ELSE IF /\ change.action \in {"create", "delete"}
                     /\ (change.field_name # NoStr \/ change.field_value # NoValue)
             THEN ValidationError
             ELSE Ok

\* Change.clean: Ok, or the exception it raises.
clean(change) ==
    IF change.action = "delchange"
    THEN IF change.deletes_change = Null THEN ValidationError
         ELSE IF changes[change.deletes_change].changeset # change.changeset
         THEN ValidationError
         ELSE IF \/ change.model_name # NoStr
                 \/ change.existing_object_pk # Null
                 \/ change.created_object # Null
                 \/ change.field_name # NoStr
                 \/ change.field_value # NoValue
         THEN ValidationError
         ELSE Ok
    ELSE IF change.deletes_change # Null THEN ValidationError
    ELSE IF change.model_name = NoStr THEN ValidationError
    ELSE LET tmp == IF change.action = "create" THEN Ok ELSE GetObj(change)
         IN  IF tmp \in {"TypeError", DoesNotExist} THEN ValidationError
             ELSE IF tmp # Ok THEN tmp
             ELSE IF /\ change.action \in {"create", "delete"}
                     /\ (change.field_name # NoStr \/ change.field_value # NoValue)
             THEN ValidationError
             ELSE Ok

\* deletes_change is a OneToOneField: the insert fails when another row voids the same Change.
UniqueViolation(change) ==
    /\ change.deletes_change # Null
    /\ \E id \in ChangePks : changes[id].deletes_change = change.deletes_change

\* save without the check of the ChangeSet's proposed and applied timestamps.
save_NoStateCheck(hd, change) ==
    LET v == clean(change)
    IN  IF v # Ok THEN v
        ELSE IF change.pk # Null THEN EditError
        ELSE IF UniqueViolation(change) THEN IntegrityError
        ELSE Ok

\* Change.save of `change` whose changeset attribute is the ChangeSet object hd:
\* Ok when the row is to be inserted, else the exception raised.
save(hd, change) ==
    LET v == clean(change)
    IN  IF v # Ok THEN v
        ELSE IF change.pk # Null THEN EditError
        ELSE IF hd.proposed # Null \/ hd.applied # Null THEN StateError
        ELSE IF UniqueViolation(change) THEN IntegrityError
        ELSE Ok

\* Change.delete
delete(change) == DeleteError


\* -------------------------------------------------------------- _new_change
\* The keyword arguments of _new_change; NoStr, NoWrapper, Null, NoValue: not passed.
\* created_object=<Change> names the creating Change without a wrapper.
Kwargs(action, model_class, obj, created_object, deletes_change, field_name, field_value) ==
    [action |-> action, model_class |-> model_class, obj |-> obj,
     created_object |-> created_object, deletes_change |-> deletes_change,
     field_name |-> field_name, field_value |-> field_value]

\* for name, value in kwargs.items(): setattr(change, name, value)
SetAttrs(change, kw) ==
    LET a == [change EXCEPT !.action = kw.action]
        m == IF kw.model_class = NoStr THEN Set(a, Ok) ELSE SetModelClass(a, kw.model_class)
        o == IF m.err # Ok \/ kw.obj = NoWrapper THEN m ELSE SetObj(m.c, kw.obj)
    IN  IF o.err # Ok THEN o
        ELSE Set([o.c EXCEPT !.created_object =
                                 IF kw.created_object = Null THEN @ ELSE kw.created_object,
                             !.deletes_change = kw.deletes_change,
                             !.field_name = kw.field_name,
                             !.field_value = kw.field_value], Ok)

\* The default author in place of every override that is not authenticated.
ChangeAuthor_Fallback(hd, author) ==
    LET a == IF author # NoUser /\ is_authenticated(author) THEN author
             ELSE hd.default_author
    IN  IF a # NoUser /\ is_authenticated(a) THEN a ELSE NoUser

\* author = self.default_author if author is None else author; kept when authenticated.
ChangeAuthor(hd, author) ==
    LET a == IF author = NoUser THEN hd.default_author ELSE author
    IN  IF a # NoUser /\ is_authenticated(a) THEN a ELSE NoUser

\* ChangeSet._new_change(author, **kw) on the ChangeSet object in slot h, called by `op`.
NewChange(op, h, author, kw) ==
    LET hd == handles[h]
        p == ParseChanges(hd)
        built == SetAttrs([ChangeObject(hd.cs) EXCEPT !.author = ChangeAuthor(hd, author)], kw)
        raised == IF p.err THEN JsonTypeError
                  ELSE IF built.err # Ok THEN built.err
                  ELSE save(hd, built.c)
        pk == Len(changes) + 1
        saved == [built.c EXCEPT !.pk = pk, !.created = now]
        p2 == ParseChange(p, saved)
    IN  /\ hd.cs # Null
        /\ UNCHANGED <<changesets, session, now>>
        /\ IF raised # Ok
           THEN /\ handles' = [handles EXCEPT ![h] = WithProjection(hd, p)]
                /\ last' = Outcome(op, h, raised, IF p.err THEN NoChange ELSE built.c, NonePk)
                /\ UNCHANGED changes
           ELSE /\ Len(changes) < MaxChanges
                /\ changes' = Append(changes, [saved EXCEPT !.set_object = NoWrapper])
                /\ handles' = [handles EXCEPT ![h] = WithProjection(hd, p2)]
                /\ last' = Outcome(op, h, IF p2.err THEN JsonTypeError ELSE Ok, saved,
                                   IF op = "add_create" /\ ~p2.err THEN StrPk(pk) ELSE NonePk)

\* ChangeSet.add_create(obj, author) for an obj whose _obj is an instance of `model`.
AddCreate(h, author, model) ==
    NewChange("add_create", h, author, Kwargs("create", model, NoWrapper, Null, Null, NoStr, NoValue))

\* ChangeSet._add_value
AddValue(op, action, h, author, obj, name, value) ==
    NewChange(op, h, author, Kwargs(action, NoStr, obj, Null, Null, name, JsonDumps(value)))

AddUpdate(h, author, obj, name, value) ==
    AddValue("add_update", "update", h, author, obj, name, value)

AddM2mAdd(h, author, obj, name, value) ==
    AddValue("add_m2m_add", "m2m_add", h, author, obj, name, value)

AddM2mRemove(h, author, obj, name, value) ==
    AddValue("add_m2m_remove", "m2m_remove", h, author, obj, name, value)

AddDelete(h, author, obj) ==
    NewChange("add_delete", h, author, Kwargs("delete", NoStr, obj, Null, Null, NoStr, NoValue))

\* _new_change(author, action='delchange', deletes_change=<Change target>)
AddDelChange(h, author, target) ==
    NewChange("delchange", h, author, Kwargs("delchange", NoStr, NoWrapper, Null, target, NoStr, NoValue))

\* ----------------------------------------------- a persisted Change, again
\* The ChangeSet object behind change.changeset of a Change read from the table.
RelatedChangeSet(cs) == Handle(cs, changesets[cs], NoUser, FALSE, {})

\* Change.objects.get(pk=id).save(): save of a Change read back from the table.
SaveLoaded(id) ==
    LET change == LoadChange(id)
    IN  /\ id \in ChangePks
        /\ last' = Outcome("save", last.h, save(RelatedChangeSet(change.changeset), change),
                           change, NonePk)
        /\ UNCHANGED <<changesets, changes, session, handles, now>>

\* change.save() once more on the Change object that _new_change just returned.
SaveReturned ==
    /\ last.op \in {"_new_change", "add_create", "add_update", "add_m2m_add",
                     "add_m2m_remove", "add_delete", "delchange"}
    /\ last.status = Ok
    /\ last' = Outcome("save", last.h, save(handles[last.h], last.change), last.change, NonePk)
    /\ UNCHANGED <<changesets, changes, session, handles, now>>

\* Change.objects.get(pk=id).delete()
Delete(id) ==
    /\ id \in ChangePks
    /\ last' = Outcome("delete", last.h, delete(LoadChange(id)), LoadChange(id), NonePk)
    /\ UNCHANGED <<changesets, changes, session, handles, now>>

\* ------------------------------------------------------------- environment
\* No ChangeSet object of the modelled requests takes part in a transition, and
\* `last` keeps the last call of the modelled requests.
Elsewhere == "elsewhere"

\* The ChangeSet is proposed: its row gets the timestamp, and so does the ChangeSet
\* object of the request that proposes it (slot `via`, or a request not modelled).
Propose(cs, via) ==
    /\ cs \in ChangeSetPks
    /\ changesets[cs].proposed = Null /\ changesets[cs].applied = Null
    /\ via # Elsewhere => handles[via].cs = cs
    /\ changesets' = [changesets EXCEPT ![cs].proposed = now]
    /\ handles' = IF via = Elsewhere THEN handles
                  ELSE [handles EXCEPT ![via].proposed = now]
    /\ last' = IF via = Elsewhere THEN last ELSE Outcome("propose", via, Ok, NoChange, NonePk)
    /\ UNCHANGED <<changes, session, now>>

\* The ChangeSet is applied, likewise.
Apply(cs, via) ==
    /\ cs \in ChangeSetPks
    /\ changesets[cs].applied = Null
    /\ via # Elsewhere => handles[via].cs = cs
    /\ changesets' = [changesets EXCEPT ![cs].applied = now]
    /\ handles' = IF via = Elsewhere THEN handles
                  ELSE [handles EXCEPT ![via].applied = now]
    /\ last' = IF via = Elsewhere THEN last ELSE Outcome("apply", via, Ok, NoChange, NonePk)
    /\ UNCHANGED <<changes, session, now>>

\* Time passes.
Tick ==
    /\ now < MaxTime
    /\ now' = now + 1
    /\ UNCHANGED <<changesets, changes, session, handles, last>>

\* ------------------------------------------------------------------ inputs
Users == AuthUsers \cup {Anonymous}

\* The wrappers a request on ChangeSet cs can hold: of the persisted objects of the
\* models ms, of the objects created by the create Changes of any ChangeSet, and
\* of instances that were never saved.
Persisted(cs, ms) == {Wrapper(IntPk(i), m, cs) : i \in ObjectPks, m \in ms}
Pending ==
    {Wrapper(StrPk(id), changes[id].model_name, changes[id].changeset) :
        id \in {c \in ChangePks : changes[c].action = "create"}}
Unsaved(cs, ms) == {Wrapper(NonePk, m, cs) : m \in ms}
Wrappers(cs, ms) == Persisted(cs, ms) \cup Pending \cup Unsaved(cs, ms)

\* The requests on the change log: one editor, one session, one model.
LogUsers == {"alice"}
LogSessions == {"s1"}
LogModels == {"Area"}
LogFields == {"name"}
LogValues == {PyStr(<<"X">>), PyStr(<<"Y">>)}
LogRelated == {PyInt(7)}

Next ==
    \/ \E h \in Handles, u \in LogUsers, s \in LogSessions : GetForRequest(h, u, s)
    \/ \E h \in Handles : Wrap(h)
    \/ \E h \in Handles, m \in LogModels : AddCreate(h, NoUser, m)
    \/ \E h \in Handles, f \in LogFields, v \in LogValues :
           \E w \in Persisted(handles[h].cs, LogModels) \cup Pending :
               AddUpdate(h, NoUser, w, f, v)
    \/ \E h \in Handles, f \in LogFields, v \in LogRelated :
           \E w \in Persisted(handles[h].cs, LogModels) : AddM2mAdd(h, NoUser, w, f, v)
    \/ \E h \in Handles, f \in LogFields, v \in LogRelated :
           \E w \in Persisted(handles[h].cs, LogModels) : AddM2mRemove(h, NoUser, w, f, v)
    \/ \E h \in Handles :
           \E w \in Persisted(handles[h].cs, LogModels) \cup Pending : AddDelete(h, NoUser, w)
    \/ \E h \in Handles : \E t \in ChangePks : AddDelChange(h, NoUser, t)

Spec == Init /\ [][Next]_vars

\* The requests that resolve their ChangeSet: every user, on one session, while
\* ChangeSets are proposed and applied by requests that are not modelled.
NextReq ==
    \/ \E h \in Handles, u \in Users, s \in LogSessions : GetForRequest(h, u, s)
    \/ \E cs \in ChangeSetPks : Propose(cs, Elsewhere)
    \/ \E cs \in ChangeSetPks : Apply(cs, Elsewhere)
    \/ Tick

SpecReq == Init /\ [][NextReq]_vars

\* The log of one editor, and calls that try to change what is in it, before and
\* after the ChangeSet is proposed.
NextEdit ==
    \/ \E h \in Handles, u \in LogUsers, s \in LogSessions : GetForRequest(h, u, s)
    \/ \E h \in Handles, m \in LogModels : AddCreate(h, NoUser, m)
    \/ \E h \in Handles, f \in LogFields, v \in LogRelated :
           \E w \in Persisted(handles[h].cs, LogModels) \cup Pending :
               AddUpdate(h, NoUser, w, f, v)
    \/ \E h \in Handles :
           \E w \in Persisted(handles[h].cs, LogModels) \cup Pending : AddDelete(h, NoUser, w)
    \/ \E h \in Handles : \E t \in ChangePks : AddDelChange(h, NoUser, t)
    \/ \E id \in ChangePks : SaveLoaded(id)
    \/ SaveReturned
    \/ \E id \in ChangePks : Delete(id)
    \/ \E cs \in ChangeSetPks : Propose(cs, Elsewhere)

SpecEdit == Init /\ [][NextEdit]_vars

\* The wrappers with a temporary pk that a caller can hand to a write: the pk names
\* any Change or none, whatever the model of _obj and the ChangeSet of the wrapper.
References ==
    {Wrapper(StrPk(n), m, c) : n \in 1..MaxChanges, m \in Models, c \in ChangeSetPks}

\* The writes of two editors, each to its ChangeSet, on objects named by a temporary pk.
NextRef ==
    \/ \E h \in Handles, u \in AuthUsers, s \in LogSessions : GetForRequest(h, u, s)
    \/ \E h \in Handles, m \in LogModels : AddCreate(h, NoUser, m)
    \/ \E h \in Handles, w \in References, f \in LogFields, v \in LogRelated :
           AddUpdate(h, NoUser, w, f, v)
    \/ \E h \in Handles, w \in References : AddDelete(h, NoUser, w)

SpecRef == Init /\ [][NextRef]_vars

\* The writes of a request through its ChangeSet object while other requests
\* propose and apply the ChangeSet.
NextRace ==
    \/ \E h \in Handles, u \in LogUsers, s \in LogSessions : GetForRequest(h, u, s)
    \/ \E h \in Handles, m \in LogModels : AddCreate(h, NoUser, m)
    \/ \E h \in Handles, f \in LogFields, v \in LogRelated :
           \E w \in Persisted(handles[h].cs, LogModels) : AddUpdate(h, NoUser, w, f, v)
    \/ \E cs \in ChangeSetPks : Propose(cs, Elsewhere)
    \/ \E cs \in ChangeSetPks : Apply(cs, Elsewhere)

SpecRace == Init /\ [][NextRace]_vars

\* One editor, logged in or not.
PinUsers == {"alice", Anonymous}

\* The author argument of a write: None, or a user, authenticated or not.
Overrides == {NoUser, "bob", Anonymous}

\* The writes with every author argument through the ChangeSet objects that
\* get_for_request returned to a requester, logged in or not, or that were loaded
\* without a request.
NextAuthor ==
    \/ \E h \in Handles, u \in PinUsers, s \in LogSessions : GetForRequest(h, u, s)
    \/ \E h \in Handles, cs \in ChangeSetPks : Load(h, cs)
    \/ \E h \in Handles, a \in Overrides, m \in LogModels : AddCreate(h, a, m)

SpecAuthor == Init /\ [][NextAuthor]_vars

\* The requests of one editor, logged in or not, on two sessions.
NextPin ==
    \/ \E h \in Handles, u \in PinUsers, s \in Sessions : GetForRequest(h, u, s)
    \/ \E cs \in ChangeSetPks : Propose(cs, Elsewhere)
    \/ \E cs \in ChangeSetPks : Apply(cs, Elsewhere)
    \/ Tick

SpecPin == Init /\ [][NextPin]_vars


\* _new_change called with any keyword arguments: the Changes that validation
\* has to judge. The ChangeSets of two editors give Changes of another ChangeSet.
\* Of Change.ACTIONS; m2m_remove takes the branches of m2m_add everywhere in clean
\* and _parse_change, and is appended by add_m2m_remove in Next.
RawActions == {"delchange", "create", "delete", "update", "m2m_add"}
RawFieldNames == {NoStr, "name"}
RawFieldValues == {NoValue, JsonDumps(PyStr(<<"X">>))}
\* What a call names as the target: nothing, model_class=<model>, obj=<wrapper>,
\* or model_class=<model> with created_object=<Change>.
Target(model_class, obj, created_object) ==
    [model_class |-> model_class, obj |-> obj, created_object |-> created_object]
RawTargets(cs) ==
    {Target(m, NoWrapper, Null) : m \in {NoStr, "Area"} \cup AbstractModels}
    \cup {Target(NoStr, w, Null) : w \in Wrappers(cs, {"Area"})}
    \cup {Target("Area", NoWrapper, c) : c \in ChangePks}

RawNewChange(h, kw) ==
    /\ NewChange("_new_change", h, NoUser, kw)
    /\ Len(changes') <= MaxRawChanges

\* A request ends at the first exception it raises: the next call is made by a
\* request that has resolved its ChangeSet again.
NextRaw ==
    \/ \E h \in Handles, u \in LogUsers, s \in LogSessions : GetForRequest(h, u, s)
    \/ /\ last.status = Ok
       /\ \E h \in Handles, a \in RawActions, f \in RawFieldNames, v \in RawFieldValues :
              \E t \in RawTargets(handles[h].cs), d \in {Null} \cup ChangePks :
                  RawNewChange(h, Kwargs(a, t.model_class, t.obj, t.created_object, d, f, v))
    \/ /\ last.status = Ok
       /\ \E h \in Handles : \E t \in ChangePks : AddDelChange(h, NoUser, t)
    \/ \E cs \in ChangeSetPks, via \in Handles : Propose(cs, via)
    \/ \E cs \in ChangeSetPks, via \in Handles : Apply(cs, via)

SpecRaw == Init /\ [][NextRaw]_vars


\* ================================================================== claims
\* The calls that end in ChangeSet._new_change.
AppendOps ==
    {"_new_change", "add_create", "add_update", "add_m2m_add", "add_m2m_remove",
     "add_delete", "delchange"}
Appended == last.op \in AppendOps

\* The last call built its Change and Change.save ran clean on it: it did not end
\* in parse_changes or in a setter.
CleanRan ==
    /\ Appended
    /\ \/ last.status \in {Ok, ValidationError, NotImplementedError, StateError, IntegrityError}
       \/ last.status = JsonTypeError /\ last.change.pk # Null

\* The ChangeSet object has its proposed or its applied timestamp set.
Uneditable(hd) == hd.proposed # Null \/ hd.applied # Null

HasPayload(c) ==
    \/ c.model_name # NoStr
    \/ c.existing_object_pk # Null
    \/ c.created_object # Null
    \/ c.field_name # NoStr
    \/ c.field_value # NoValue

ValueActions == {"update", "m2m_add", "m2m_remove"}

\* C1 (as claimed): every append to a ChangeSet object whose proposed or applied
\* timestamp is set ends with the state error, whatever the action and payload.
C1_AlwaysStateError ==
    (Appended /\ Uneditable(handles[last.h])) => last.status = StateError

\* C1 (amended): an append to a ChangeSet object whose proposed or applied
\* timestamp is set never succeeds and persists nothing. It ends with the state
\* error when the Change passes clean, with the error of clean (ValidationError,
\* NotImplementedError) when clean raises, and otherwise with the error raised
\* before save ran (ValueError or DoesNotExist of a setter, the TypeError of
\* parse_changes).
C1_UneditableNeverAppends ==
    (Appended /\ Uneditable(handles[last.h])) =>
        /\ last.status \in {StateError, ValidationError, NotImplementedError,
                            ValueError, DoesNotExist, JsonTypeError}
        /\ last.change.pk = Null
        /\ last.status = StateError => clean(last.change) = Ok
        /\ last.status \in {ValidationError, NotImplementedError} =>
               clean(last.change) = last.status
        /\ (CleanRan /\ clean(last.change) = Ok) => last.status = StateError

\* C1 witness: a delchange with a valid target, appended to a ChangeSet object that
\* is proposed or applied, ended with the state error.
C1_Witness ==
    /\ Appended /\ Uneditable(handles[last.h])
    /\ last.status = StateError
    /\ last.change.action = "delchange"

\* C5: a Change with action update, m2m_add or m2m_remove whose field_name or
\* field_value is absent is rejected with ValidationError, and none is ever stored.
C5_ValueChangesCarryField ==
    /\ \A id \in ChangePks :
           changes[id].action \in ValueActions =>
               changes[id].field_name # NoStr /\ changes[id].field_value # NoValue
    /\ ( /\ CleanRan
         /\ last.change.action \in ValueActions
         /\ (last.change.field_name = NoStr \/ last.change.field_value = NoValue) )
       => last.status = ValidationError

\* C6: validation rejects with ValidationError a delchange Change without
\* deletes_change, with a deletes_change of another ChangeSet, or with any of
\* model_name, existing_object_pk, created_object, field_name, field_value set,
\* and a Change of another action with deletes_change set; so every stored
\* delchange voids a Change of its own ChangeSet and carries nothing else, and no
\* other stored Change has deletes_change set.
C6_DelchangeValidated ==
    /\ ( /\ CleanRan
         /\ last.change.action = "delchange"
         /\ \/ last.change.deletes_change = Null
            \/ changes[last.change.deletes_change].changeset # last.change.changeset
            \/ HasPayload(last.change) )
       => last.status = ValidationError
    /\ (CleanRan /\ last.change.action # "delchange" /\ last.change.deletes_change # Null)
       => last.status = ValidationError
    /\ \A id \in ChangePks :
           IF changes[id].action = "delchange"
           THEN /\ changes[id].deletes_change \in ChangePks
                /\ changes[changes[id].deletes_change].changeset = changes[id].changeset
                /\ ~HasPayload(changes[id])
           ELSE changes[id].deletes_change = Null

\* C6 witness: a delchange that names a Change of another ChangeSet and carries
\* nothing else was rejected with ValidationError, while a delchange is stored.
C6_Witness ==
    /\ CleanRan
    /\ last.status = ValidationError
    /\ last.change.action = "delchange"
    /\ last.change.deletes_change # Null
    /\ changes[last.change.deletes_change].changeset # last.change.changeset
    /\ ~HasPayload(last.change)
    /\ \E id \in ChangePks : changes[id].action = "delchange"

\* C7: validation rejects with ValidationError a create or delete Change with
\* field_name or field_value set, and a Change of any action but delchange
\* without a model name; so every stored create or delete has a model name and
\* no field name or value.
C7_CreateDeleteValidated ==
    /\ ( /\ CleanRan
         /\ last.change.action \in {"create", "delete"}
         /\ (last.change.field_name # NoStr \/ last.change.field_value # NoValue) )
       => last.status = ValidationError
    /\ (CleanRan /\ last.change.action # "delchange" /\ last.change.model_name = NoStr)
       => last.status = ValidationError
    /\ \A id \in ChangePks :
           /\ changes[id].action # "delchange" => changes[id].model_name # NoStr
           /\ changes[id].action \in {"create", "delete"} =>
                  changes[id].field_name = NoStr /\ changes[id].field_value = NoValue

\* ------------------------------------------------------ projection claims
\* The last call was made on a ChangeSet object and ran parse_changes to its end.
Parsed == last.op \in AppendOps \cup {"wrap"} /\ last.status # JsonTypeError

\* The identity of the object a stored Change targets: the pk of a persisted
\* object, or 'c' + the pk of the Change that created it.
TargetPk(c) ==
    IF c.existing_object_pk # Null THEN IntPk(c.existing_object_pk)
    ELSE StrPk(c.created_object)

\* updated_values has an entry for field f of object pk of model m.
Has(uv, m, pk, f) ==
    m \in DOMAIN uv /\ pk \in DOMAIN uv[m] /\ f \in DOMAIN uv[m][pk]

\* A stored Change is live unless a live delchange voids it.
RECURSIVE Live(_)
Live(id) ==
    \A d \in ChangePks :
        (changes[d].action = "delchange" /\ changes[d].deletes_change = id) => ~Live(d)

SameField(a, b) ==
    /\ changes[a].model_name = changes[b].model_name
    /\ TargetPk(changes[a]) = TargetPk(changes[b])
    /\ changes[a].field_name = changes[b].field_name

\* C2: once a delchange voids Change A, the projection of a ChangeSet object that
\* appended the delchange, or parsed the log after it, holds nothing of A: no
\* entry for A's field unless another live update sets it, and A's object is not
\* in deleted_existing unless another live delete targets it.
C2_RollbackCorrect ==
    (Parsed /\ last.status = Ok) =>
        LET hd == handles[last.h]
            log == ChangesOf(hd.cs)
        IN  \A a \in log :
                ~Live(a) =>
                    /\ ( /\ changes[a].action = "update"
                         /\ ~\E o \in log \ {a} :
                                changes[o].action = "update" /\ Live(o) /\ SameField(a, o) )
                       => ~Has(hd.updated_values, changes[a].model_name,
                               TargetPk(changes[a]), changes[a].field_name)
                    /\ ( /\ changes[a].action = "delete"
                         /\ changes[a].existing_object_pk # Null
                         /\ ~\E o \in log \ {a} :
                                /\ changes[o].action = "delete" /\ Live(o)
                                /\ changes[o].model_name = changes[a].model_name
                                /\ changes[o].existing_object_pk = changes[a].existing_object_pk )
                       => changes[a].existing_object_pk
                              \notin Get(hd.deleted_existing, changes[a].model_name, {})

\* C3: after a call on a ChangeSet object, updated_values[model][object][field]
\* is the decoded value of the latest update Change of the log, in the order
\* (created, pk), for every (model, object, field) that update Changes set.
C3_LastWriteWins ==
    Parsed =>
        LET hd == handles[last.h]
            updates == {c \in ChangesOf(hd.cs) : changes[c].action = "update"}
        IN  \A a \in updates :
                ( /\ \A o \in updates : SameField(a, o) => Live(o)
                  /\ \A o \in updates \ {a} : SameField(a, o) => Before(o, a) )
                => /\ Has(hd.updated_values, changes[a].model_name,
                          TargetPk(changes[a]), changes[a].field_name)
                   /\ hd.updated_values[changes[a].model_name][TargetPk(changes[a])]
                          [changes[a].field_name] = JsonLoads(changes[a].field_value)

\* C4: add_create gives the object the identity 'c' + pk of the create Change;
\* obj_pk of every stored Change on a pending object is 'c' + pk of its
\* created_object; the ChangeSet object that appended or parsed an update of a
\* pending object holds it under that identity; and the entry of a pending
\* object holds only fields that updates of that very object set.
C4_TemporaryIdentity ==
    /\ (last.op = "add_create" /\ last.status = Ok) => last.pk = StrPk(last.change.pk)
    /\ \A c \in ChangePks :
           changes[c].created_object # Null =>
               obj_pk(LoadChange(c)) = StrPk(changes[c].created_object)
    /\ Parsed =>
           LET hd == handles[last.h]
               updates == {c \in ChangesOf(hd.cs) : changes[c].action = "update"}
           IN  /\ \A c \in updates :
                      changes[c].created_object # Null =>
                          Has(hd.updated_values, changes[c].model_name,
                              StrPk(changes[c].created_object), changes[c].field_name)
               /\ \A m \in DOMAIN hd.updated_values :
                      \A pk \in DOMAIN hd.updated_values[m] :
                          pk.kind = "str" =>
                              \A f \in DOMAIN hd.updated_values[m][pk] :
                                  \E c \in updates :
                                      /\ changes[c].created_object = pk.n
                                      /\ changes[c].model_name = m
                                      /\ changes[c].field_name = f

\* C8: after add_delete of the persisted object (M, i), deleted_existing of the
\* ChangeSet object contains (M, i); and deleted_existing of every ChangeSet
\* object holds only pks of persisted objects that a delete Change of the log
\* targets.
C8_DeletedExisting ==
    /\ ( /\ last.op = "add_delete" /\ last.status = Ok
         /\ last.change.existing_object_pk # Null )
       => last.change.existing_object_pk
              \in Get(handles[last.h].deleted_existing, last.change.model_name, {})
    /\ \A h \in Handles :
           \A m \in DOMAIN handles[h].deleted_existing :
               \A i \in handles[h].deleted_existing[m] :
                   /\ i \in ObjectPks
                   /\ \E c \in ChangesOf(handles[h].cs) :
                          /\ changes[c].action = "delete"
                          /\ changes[c].model_name = m
                          /\ changes[c].existing_object_pk = i

\* C8 witness: a persisted object was deleted and is in deleted_existing, while
\* the same log holds a delete of a pending object.
C8_Witness ==
    /\ last.op = "add_delete" /\ last.status = Ok
    /\ last.change.existing_object_pk
           \in Get(handles[last.h].deleted_existing, last.change.model_name, {})
    /\ \E c \in ChangesOf(handles[last.h].cs) :
           changes[c].action = "delete" /\ changes[c].created_object # Null


\* ------------------------------------------------------ resolution claims
ResolveOps == {"get_for_request:session", "get_for_request:author", "get_for_request:new"}
Resolved == last.op \in ResolveOps

\* C9: the ChangeSet that get_for_request returns has neither its proposed nor
\* its applied timestamp set, in the object returned and in its row.
C9_ReturnsOnlyOpen ==
    Resolved =>
        /\ handles[last.h].proposed = Null /\ handles[last.h].applied = Null
        /\ changesets[handles[last.h].cs].proposed = Null
        /\ changesets[handles[last.h].cs].applied = Null

\* C10: the ChangeSet that get_for_request returns is never authored by another
\* user than the requester. An authenticated requester is its author after the
\* call; an anonymous requester gets an author-less ChangeSet, by its session
\* reference or newly created, never by author matching.
C10_Ownership ==
    Resolved =>
        LET hd == handles[last.h]
            user == hd.default_author
        IN  /\ changesets[hd.cs].author \in {NoUser, user}
            /\ is_authenticated(user) =>
                   changesets[hd.cs].author = user /\ hd.author = user
            /\ ~is_authenticated(user) =>
                   /\ changesets[hd.cs].author = NoUser /\ hd.author = NoUser
                   /\ last.op # "get_for_request:author"

\* C10 witness: an authenticated requester got a new ChangeSet of its own while
\* the session referred to the open ChangeSet of another user.
C10_Witness ==
    /\ last.op = "get_for_request:new"
    /\ handles[last.h].default_author = "alice"
    /\ changesets[handles[last.h].cs].author = "alice"
    /\ \E cs \in ChangeSetPks :
           /\ changesets[cs].author = "bob"
           /\ changesets[cs].applied = Null /\ changesets[cs].proposed = Null


\* The requester of the last get_for_request and the ChangeSet it got.
Requester == handles[last.h].default_author
Returned == handles[last.h].cs

\* The step is a get_for_request that did not leave everything as it was.
ResolveStep ==
    /\ Resolved'
    /\ <<last, handles, session>>' # <<last, handles, session>>

Usable(ref, user) ==
    /\ ref \in ChangeSetPks
    /\ changesets[ref].applied = Null
    /\ changesets[ref].author \in {NoUser, user}

\* The ChangeSets that are not applied and have the user as author.
Mine(user) ==
    {c \in ChangeSetPks : changesets[c].author = user /\ changesets[c].applied = Null}

\* C12: get_for_request of an authenticated requester returns the ChangeSet of a
\* usable session reference; without one, the latest created of the ChangeSets
\* the requester authors that are not applied, creating none; and only if there
\* is none, a new ChangeSet authored by the requester.
C12_ResolutionOrder ==
    [][ (ResolveStep /\ is_authenticated(Requester')) =>
            LET user == Requester'
                ref == session[last'.s]
            IN  IF Usable(ref, user)
                THEN Returned' = ref /\ Len(changesets') = Len(changesets)
                ELSE IF Mine(user) # {}
                THEN /\ Returned' \in Mine(user)
                     /\ \A o \in Mine(user) :
                            changesets[o].created <= changesets[Returned'].created
                     /\ Len(changesets') = Len(changesets)
                ELSE /\ Len(changesets') = Len(changesets) + 1
                     /\ Returned' = Len(changesets')
                     /\ changesets'[Returned'].author = user
      ]_vars

\* C12 witness: author matching returned the later created of two ChangeSets of
\* the requester that are not applied.
C12_Witness ==
    /\ last.op = "get_for_request:author"
    /\ \E o \in ChangeSetPks :
           /\ changesets[o].author = Requester
           /\ changesets[o].applied = Null
           /\ changesets[o].created < changesets[Returned].created


\* ------------------------------------------------------ author attribution
\* The author the claim gives a Change written with the author argument
\* `override` through a ChangeSet object with the default author `default`.
Attributed(override, default) ==
    IF override # NoUser
    THEN IF is_authenticated(override) THEN override ELSE NoUser
    ELSE IF default # NoUser /\ is_authenticated(default) THEN default ELSE NoUser

\* The step persisted a Change.
Persists == Len(changes') = Len(changes) + 1

\* C13: a persisted Change has the author argument as author when one is given and
\* is authenticated, the ChangeSet object's default author when none is given and
\* that one is authenticated, and no author otherwise; an author argument that is
\* not authenticated gives no author, never the default author.
C13_AuthorAttribution ==
    [][ \A h \in Handles, a \in Overrides :
            (Persists /\ \E m \in LogModels : AddCreate(h, a, m))
            => /\ changes'[Len(changes')].author = Attributed(a, handles[h].default_author)
               /\ changes'[Len(changes')].author \in AuthUsers \cup {NoUser}
      ]_vars

\* C13 witness: a Change written with an author argument that is not authenticated,
\* through a ChangeSet object whose default author is, was persisted without author.
C13_Witness ==
    /\ Appended /\ last.status = Ok
    /\ last.change.author = NoUser
    /\ is_authenticated(handles[last.h].default_author)

\* The other cases of C13 happen: the author argument prevails over another
\* default author, and a ChangeSet object without default author writes.
C13_OverrideCase ==
    /\ Appended /\ last.status = Ok
    /\ last.change.author \in AuthUsers
    /\ last.change.author # handles[last.h].default_author
C13_NoDefaultCase ==
    /\ Appended /\ last.status = Ok
    /\ handles[last.h].default_author = NoUser


\* ------------------------------------------------------------ immutability
\* The exceptions of class TypeError that Change.save and Change.delete raise.
StateErrors == {StateError, EditError, DeleteError}

\* C14: save and delete of a persisted Change, whatever its action, its target and
\* the state of its ChangeSet, fail with the TypeError that says Changes can not
\* be edited or deleted.
C14_EditFailsWithStateError ==
    last.op \in {"save", "delete"} => last.status \in StateErrors

\* The rest of C14, which holds: a step changes the Change table only by appending
\* one row to it, and a save or delete of a persisted Change leaves it as it is.
C14_LogOnlyGrows ==
    [][ /\ changes' # changes => SubSeq(changes', 1, Len(changes)) = changes
        /\ last'.op \in {"save", "delete"} /\ last' # last => changes' = changes
      ]_vars


\* ------------------------------------------------------------- parsing
\* What one call of parse_changes gives a ChangeSet object that was just read
\* from the table with the log as it is now.
SingleParse(cs) ==
    FoldChanges([uv |-> <<>>, de |-> <<>>, err |-> FALSE], LogOrder(ChangesOf(cs)))

\* C15: however often parse_changes has run on a ChangeSet object (in wrap, in
\* every append), its updated_values and deleted_existing are those of a single
\* call, which are those any other ChangeSet object gets from the same log.
C15_ParseIdempotent ==
    (Parsed /\ last.status = Ok) =>
        LET hd == handles[last.h]
        IN  /\ hd.updated_values = SingleParse(hd.cs).uv
            /\ hd.deleted_existing = SingleParse(hd.cs).de

\* The part of C15 about calls with nothing appended in between: a wrap after a
\* wrap or an append on the same ChangeSet object leaves the projection as it was.
C15_ParseAgainKeeps ==
    [][ (Parsed /\ last'.op = "wrap" /\ last'.status = Ok /\ last'.h = last.h /\ changes' = changes)
            => /\ handles'[last.h].updated_values = handles[last.h].updated_values
               /\ handles'[last.h].deleted_existing = handles[last.h].deleted_existing
      ]_vars


\* ------------------------------------------------------ pending references
\* The last call was a write on an object named by a temporary pk.
OnReference == Appended /\ last.op \in {"add_update", "add_delete"}

\* The Change that was built refers to a create Change of its own ChangeSet and
\* of the model of the object.
ValidReference(c) ==
    /\ c.created_object \in ChangePks
    /\ changes[c.created_object].action = "create"
    /\ changes[c.created_object].changeset = c.changeset
    /\ changes[c.created_object].model_name = c.model_name

\* C16: a write on an object with a temporary pk is accepted only if the Change the
\* pk names exists, belongs to the ChangeSet written to, is a create and is of the
\* model of the object; every other write fails and persists nothing.
C16_StrictReference ==
    (OnReference /\ last.status = Ok) => ValidReference(last.change)

\* What holds of C16: a reference to no Change, and a wrapper of another
\* ChangeSet object, fail with DoesNotExist or ValueError and persist nothing.
C16_ExistsAndSameWrapperChangeSet ==
    [][ (OnReference' /\ last' # last) =>
            IF last'.status = Ok
            THEN /\ last'.change.created_object \in ChangePks
                 /\ last'.change.set_object.cs = handles[last'.h].cs
            ELSE changes' = changes
      ]_vars


\* ------------------------------------------------------------ concurrency
\* C17: a step that persists a Change persists it into a ChangeSet whose row has
\* neither the proposed nor the applied timestamp, however the appends through a
\* ChangeSet object interleave with other requests proposing and applying it.
C17_NoAppendAfterProposed ==
    [][ Persists =>
            LET cs == changes'[Len(changes')].changeset
            IN  changesets[cs].proposed = Null /\ changesets[cs].applied = Null
      ]_vars

\* What the code does ensure: the ChangeSet object written through has neither
\* timestamp set.
C17_ObjectNotProposed ==
    [][ Persists =>
            LET hd == handles[last'.h]
            IN  hd.proposed = Null /\ hd.applied = Null
      ]_vars


\* ------------------------------------------------------------- atomicity
\* C18: when _new_change raises, the Change table is as it was, and the
\* projection of the ChangeSet object is what parse_changes made of the log as
\* it was, with nothing of the rejected Change in it.
C18_FailedAppendAtomic ==
    [][ (Appended' /\ last' # last /\ last'.status # Ok) =>
            LET p == ParseChanges(handles[last'.h])
            IN  /\ changes' = changes
                /\ handles'[last'.h].updated_values = p.uv
                /\ handles'[last'.h].deleted_existing = p.de
      ]_vars

\* What holds of C18: a call that raises before or in Change.save persists nothing
\* and folds nothing of the rejected Change.
C18_RejectedBeforeSaveAtomic ==
    [][ (Appended' /\ last' # last /\ last'.status # Ok /\ last'.change.pk = Null) =>
            LET p == ParseChanges(handles[last'.h])
            IN  /\ changes' = changes
                /\ handles'[last'.h].updated_values = p.uv
                /\ handles'[last'.h].deleted_existing = p.de
      ]_vars


\* ------------------------------------------------- relations in the projection
\* C19: a Change with action m2m_add or m2m_remove is folded into updated_values
\* like an update: after the append, the ChangeSet object that appended it has
\* the value under the model, the object and the field of the Change.
C19_RelationsFolded ==
    (last.op \in {"add_m2m_add", "add_m2m_remove"} /\ last.status = Ok) =>
        LET c == last.change
            uv == handles[last.h].updated_values
        IN  /\ Has(uv, c.model_name, obj_pk(c), c.field_name)
            /\ uv[c.model_name][obj_pk(c)][c.field_name] = JsonLoads(c.field_value)

\* The same holds of an update.
C19_UpdatesFolded ==
    (last.op = "add_update" /\ last.status = Ok) =>
        LET c == last.change
            uv == handles[last.h].updated_values
        IN  /\ Has(uv, c.model_name, obj_pk(c), c.field_name)
            /\ uv[c.model_name][obj_pk(c)][c.field_name] = JsonLoads(c.field_value)

\* ------------------------------------------------------- the parsed flag
\* C20: once parse_changes has run on a ChangeSet object, the object is marked
\* parsed, and later calls return without folding the log again.
C20_MarkedParsed ==
    Parsed => handles[last.h].parsed


\* ------------------------------------------------------------- refinement
\* The last call was a successful append of a create, an update or a delete
\* through the ChangeSet object that get_for_request created with the ChangeSet,
\* so that every Change of the log was appended through it.
AppendedByCreator ==
    /\ last.op \in {"add_create", "add_update", "add_delete"}
    /\ last.status = Ok
    /\ ~handles[last.h].prefetched

\* C21: after successful appends of create, update (of persisted and of created
\* objects) and delete Changes through one ChangeSet object, its updated_values
\* and deleted_existing are those that a ChangeSet object just read from the table
\* gets by folding the log from the start.
C21_IncrementalRefinesFold ==
    AppendedByCreator =>
        LET hd == handles[last.h]
        IN  /\ hd.updated_values = SingleParse(hd.cs).uv
            /\ hd.deleted_existing = SingleParse(hd.cs).de

\* What holds of C21: the same while no Change of the log is on a created object.
C21_PersistedRefinesFold ==
    (AppendedByCreator /\ \A c \in ChangePks : changes[c].created_object = Null) =>
        LET hd == handles[last.h]
        IN  /\ hd.updated_values = SingleParse(hd.cs).uv
            /\ hd.deleted_existing = SingleParse(hd.cs).de

====
